---- MODULE Spec2Model ----
(***************************************************************************)
(* starknet-devnet: the JSON-RPC dispatcher (blueprints/rpc/routes.py),    *)
(* the server bootstrap (server.py) and the NullOrigin chain-state         *)
(* origin (origin.py).                                                     *)
(*                                                                         *)
(* Strings the code inspects character by character (method names, block  *)
(* hashes) are sequences of one-character strings; JSON values are         *)
(* records [kind, n] so that Python truthiness and isinstance() can be     *)
(* computed the way the interpreter computes them.                         *)
(***************************************************************************)
EXTENDS Integers, Sequences, FiniteSets, TLC

VARIABLES
    pcMain,           \* position of main() in server.py
    initCalls,        \* number of times StarknetWrapper.initialize() was called
    initDone,         \* number of those calls that ran to completion
    gotFirstRequest,  \* Flask: the before_first_request functions have run
    hookLock,         \* Flask: holder of the before-first-request lock (0: free)
    registry,         \* the module-level dict `methods` of routes.py
    pc,               \* per worker thread: position in the request's handling
    req,              \* per worker thread: request.json
    resp,             \* per worker thread: what the HTTP client receives
    trace,            \* per worker thread: what the request's handling did
    resolve,          \* method-name resolution of parse_body, on its own
    origin            \* NullOrigin.get_state_update, on its own

vars == <<pcMain, initCalls, initDone, gotFirstRequest, hookLock, registry,
          pc, req, resp, trace, resolve, origin>>

serverVars == <<pcMain, initCalls, initDone, gotFirstRequest, hookLock,
                registry, pc, req, resp, trace>>

-----------------------------------------------------------------------------
(* Bounds of the model.                                                    *)

\* worker threads handling requests at the same time
NumThreads == 2

\* longest params array / largest params object a request carries
MaxArgs == 2

\* pieces a method string is assembled from in the resolution specification
MaxParts == 3

\* longest block hash string handed to NullOrigin.get_state_update
MaxHashLen == 3

\* largest block number handed to NullOrigin.get_state_update
MaxBlockNumber == 2

Threads == 1..NumThreads

-----------------------------------------------------------------------------
(* Error codes.                                                            *)

\* RpcErrorCode.INVALID_REQUEST / METHOD_NOT_FOUND / INVALID_PARAMS: the enum is
\* declared in structures/types.py; the values are those of JSON-RPC 2.0, and
\* nothing below depends on more than their being distinct from each other,
\* from 22 and from the handlers' codes
INVALID_REQUEST == -32600

METHOD_NOT_FOUND == -32601

INVALID_PARAMS == -32602

\* the literal code of base_route's `except TypeError` branch
BINDING_FAILURE_CODE == 22

\* codes a handler's own RpcError carries (CONTRACT_NOT_FOUND, INVALID_BLOCK_ID)
HandlerErrorCodes == {20, 24}

\* HTTP status a StarkException raised by the engine carries
FaultStatusCodes == {500}

-----------------------------------------------------------------------------
(* The method registry.                                                    *)

PREFIX == <<"s","t","a","r","k","n","e","t","_">>

\* a variant with a slip: the last entry of the dict is missing
methods_without_add_deploy ==
    (<<"g","e","t","B","l","o","c","k","W","i","t","h","T","x","H","a","s","h","e","s">> :> "get_block_with_tx_hashes")
    @@ (<<"g","e","t","B","l","o","c","k","W","i","t","h","T","x","s">> :> "get_block_with_txs")
    @@ (<<"g","e","t","S","t","a","t","e","U","p","d","a","t","e">> :> "get_state_update")
    @@ (<<"g","e","t","S","t","o","r","a","g","e","A","t">> :> "get_storage_at")
    @@ (<<"g","e","t","T","r","a","n","s","a","c","t","i","o","n","B","y","H","a","s","h">> :> "get_transaction_by_hash")
    @@ (<<"g","e","t","T","r","a","n","s","a","c","t","i","o","n","B","y","B","l","o","c","k","I","d","A","n","d","I","n","d","e","x">> :> "get_transaction_by_block_id_and_index")
    @@ (<<"g","e","t","T","r","a","n","s","a","c","t","i","o","n","R","e","c","e","i","p","t">> :> "get_transaction_receipt")
    @@ (<<"g","e","t","C","l","a","s","s">> :> "get_class")
    @@ (<<"g","e","t","C","l","a","s","s","H","a","s","h","A","t">> :> "get_class_hash_at")
    @@ (<<"g","e","t","C","l","a","s","s","A","t">> :> "get_class_at")
    @@ (<<"g","e","t","B","l","o","c","k","T","r","a","n","s","a","c","t","i","o","n","C","o","u","n","t">> :> "get_block_transaction_count")
    @@ (<<"c","a","l","l">> :> "call")
    @@ (<<"e","s","t","i","m","a","t","e","F","e","e">> :> "estimate_fee")
    @@ (<<"b","l","o","c","k","N","u","m","b","e","r">> :> "block_number")
    @@ (<<"b","l","o","c","k","H","a","s","h","A","n","d","N","u","m","b","e","r">> :> "block_hash_and_number")
    @@ (<<"c","h","a","i","n","I","d">> :> "chain_id")
    @@ (<<"p","e","n","d","i","n","g","T","r","a","n","s","a","c","t","i","o","n","s">> :> "pending_transactions")
    @@ (<<"s","y","n","c","i","n","g">> :> "syncing")
    @@ (<<"g","e","t","E","v","e","n","t","s">> :> "get_events")
    @@ (<<"g","e","t","N","o","n","c","e">> :> "get_nonce")
    @@ (<<"a","d","d","I","n","v","o","k","e","T","r","a","n","s","a","c","t","i","o","n">> :> "add_invoke_transaction")
    @@ (<<"a","d","d","D","e","c","l","a","r","e","T","r","a","n","s","a","c","t","i","o","n">> :> "add_declare_transaction")

\* routes.py: methods = {...}: protocol name -> handler function
methods ==
    (<<"g","e","t","B","l","o","c","k","W","i","t","h","T","x","H","a","s","h","e","s">> :> "get_block_with_tx_hashes")
    @@ (<<"g","e","t","B","l","o","c","k","W","i","t","h","T","x","s">> :> "get_block_with_txs")
    @@ (<<"g","e","t","S","t","a","t","e","U","p","d","a","t","e">> :> "get_state_update")
    @@ (<<"g","e","t","S","t","o","r","a","g","e","A","t">> :> "get_storage_at")
    @@ (<<"g","e","t","T","r","a","n","s","a","c","t","i","o","n","B","y","H","a","s","h">> :> "get_transaction_by_hash")
    @@ (<<"g","e","t","T","r","a","n","s","a","c","t","i","o","n","B","y","B","l","o","c","k","I","d","A","n","d","I","n","d","e","x">> :> "get_transaction_by_block_id_and_index")
    @@ (<<"g","e","t","T","r","a","n","s","a","c","t","i","o","n","R","e","c","e","i","p","t">> :> "get_transaction_receipt")
    @@ (<<"g","e","t","C","l","a","s","s">> :> "get_class")
    @@ (<<"g","e","t","C","l","a","s","s","H","a","s","h","A","t">> :> "get_class_hash_at")
    @@ (<<"g","e","t","C","l","a","s","s","A","t">> :> "get_class_at")
    @@ (<<"g","e","t","B","l","o","c","k","T","r","a","n","s","a","c","t","i","o","n","C","o","u","n","t">> :> "get_block_transaction_count")
    @@ (<<"c","a","l","l">> :> "call")
    @@ (<<"e","s","t","i","m","a","t","e","F","e","e">> :> "estimate_fee")
    @@ (<<"b","l","o","c","k","N","u","m","b","e","r">> :> "block_number")
    @@ (<<"b","l","o","c","k","H","a","s","h","A","n","d","N","u","m","b","e","r">> :> "block_hash_and_number")
    @@ (<<"c","h","a","i","n","I","d">> :> "chain_id")
    @@ (<<"p","e","n","d","i","n","g","T","r","a","n","s","a","c","t","i","o","n","s">> :> "pending_transactions")
    @@ (<<"s","y","n","c","i","n","g">> :> "syncing")
    @@ (<<"g","e","t","E","v","e","n","t","s">> :> "get_events")
    @@ (<<"g","e","t","N","o","n","c","e">> :> "get_nonce")
    @@ (<<"a","d","d","I","n","v","o","k","e","T","r","a","n","s","a","c","t","i","o","n">> :> "add_invoke_transaction")
    @@ (<<"a","d","d","D","e","c","l","a","r","e","T","r","a","n","s","a","c","t","i","o","n">> :> "add_declare_transaction")
    @@ (<<"a","d","d","D","e","p","l","o","y","T","r","a","n","s","a","c","t","i","o","n">> :> "add_deploy_transaction")

-----------------------------------------------------------------------------
(* JSON values and Python exceptions.                                      *)

\* a JSON value as parse_body sees it: its Python type and its size (the
\* length of a list, dict or str; the value of a number; 0/1 for a bool)
Val(k, n) == [kind |-> k, n |-> n]

NoneVal == Val("null", 0)

EmptyDict == Val("dict", 0)

\* Python's bool(v): None, 0, False, "", [] and {} are falsy
Truthy(v) == v.kind \notin {"absent", "null"} /\ v.n # 0

Exc(t, c, m, s) == [type |-> t, code |-> c, message |-> m, status |-> s]

NoExc == Exc("none", 0, "", 0)

\* the built-in exception classes that `except RuntimeError` catches
IsRuntimeError(e) ==
    e.type \in {"RuntimeError", "RecursionError", "NotImplementedError"}

\* str.replace(old, ""): every non-overlapping occurrence of old, found in one
\* scan from the left, is removed
RECURSIVE replace(_, _)
replace(s, old) ==
    IF Len(s) < Len(old) THEN s
    ELSE IF SubSeq(s, 1, Len(old)) = old
         THEN replace(SubSeq(s, Len(old) + 1, Len(s)), old)
         ELSE <<Head(s)>> \o replace(Tail(s), old)

\* a variant with a slip: only a leading prefix is stripped (str.removeprefix)
method_name_prefix_only(method) ==
    IF Len(method) >= Len(PREFIX) /\ SubSeq(method, 1, Len(PREFIX)) = PREFIX
    THEN SubSeq(method, Len(PREFIX) + 1, Len(method))
    ELSE method

\* parse_body: body["method"].replace("starknet_", "")
method_name(method) == replace(method, PREFIX)

-----------------------------------------------------------------------------
(* parse_body.                                                             *)

Body(shape, m, p, i) == [shape |-> shape, method |-> m, params |-> p, id |-> i]

Method(k, s) == [kind |-> k, s |-> s]

NoBody == Body("none", Method("absent", <<>>), Val("absent", 0), Val("absent", 0))

Parsed(e, name, h, p, i) ==
    [exc |-> e, name |-> name, method |-> h, params |-> p, message_id |-> i]

\* the try block of parse_body: the three lookups, in order
parse_body_try(body) ==
    IF body.shape = "array"
    THEN Parsed(Exc("TypeError", 0, "list indices must be integers or slices, not str", 0),
                <<>>, "", NoneVal, NoneVal)
    ELSE IF body.shape = "string"
    THEN Parsed(Exc("TypeError", 0, "string indices must be integers", 0),
                <<>>, "", NoneVal, NoneVal)
    ELSE IF body.shape = "number"
    THEN Parsed(Exc("TypeError", 0, "'int' object is not subscriptable", 0),
                <<>>, "", NoneVal, NoneVal)
    ELSE IF body.shape = "null"
    THEN Parsed(Exc("TypeError", 0, "'NoneType' object is not subscriptable", 0),
                <<>>, "", NoneVal, NoneVal)
    ELSE IF body.method.kind = "absent"
    THEN Parsed(Exc("KeyError", 0, "'method'", 0), <<>>, "", NoneVal, NoneVal)
    ELSE IF body.method.kind # "str"
    THEN Parsed(Exc("AttributeError", 0, "'int' object has no attribute 'replace'", 0),
                <<>>, "", NoneVal, NoneVal)
    ELSE IF body.id.kind = "absent"
    THEN Parsed(Exc("KeyError", 0, "'id'", 0), <<>>, "", NoneVal, NoneVal)
    ELSE Parsed(NoExc, method_name(body.method.s), "",
                IF Truthy(body.params) THEN body.params ELSE EmptyDict,
                body.id)

\* a variant with a slip: the params check comes before the registry lookup
parse_body_checks_params_first(got, reg) ==
    IF got.params.kind \notin {"list", "dict"}
    THEN Parsed(Exc("RpcError", INVALID_PARAMS, "Invalid params", 0),
                got.name, "", got.params, got.message_id)
    ELSE IF got.name \notin DOMAIN reg
    THEN Parsed(Exc("RpcError", METHOD_NOT_FOUND, "Method not found", 0),
                got.name, "", got.params, got.message_id)
    ELSE Parsed(NoExc, got.name, reg[got.name], got.params, got.message_id)

\* parse_body after the try block: registry lookup, then the params check
parse_body_checks(got, reg) ==
    IF got.name \notin DOMAIN reg
    THEN Parsed(Exc("RpcError", METHOD_NOT_FOUND, "Method not found", 0),
                got.name, "", got.params, got.message_id)
    ELSE IF got.params.kind \notin {"list", "dict"}
    THEN Parsed(Exc("RpcError", INVALID_PARAMS, "Invalid params", 0),
                got.name, "", got.params, got.message_id)
    ELSE Parsed(NoExc, got.name, reg[got.name], got.params, got.message_id)

parse_body(body, reg) ==
    LET got == parse_body_try(body)
    IN  IF got.exc.type # "none"
        THEN IF IsRuntimeError(got.exc)
             THEN Parsed(Exc("RpcError", INVALID_REQUEST, "Invalid request", 0),
                         <<>>, "", NoneVal, NoneVal)
             ELSE got
        ELSE parse_body_checks(got, reg)

-----------------------------------------------------------------------------
(* Responses.                                                              *)

Resp(k, i, c, m, s) == [kind |-> k, id |-> i, code |-> c, message |-> m, status |-> s]

NoResp == Resp("none", NoneVal, 0, "", 0)

\* rpc_response: {"id": message_id, "result": content}
rpc_response(message_id) == Resp("result", message_id, 0, "", 200)

\* rpc_error: {"id": message_id, "error": {"code": code, "message": message}}
rpc_error(message_id, code, message) == Resp("error", message_id, code, message, 200)

\* server.py handle(): a StarkException becomes {message, status_code}
handle(error) == Resp("fault", NoneVal, 0, error.message, error.status)

\* an exception neither base_route nor an errorhandler catches: Flask's own
\* 500 page, no JSON object of this program
unhandled(error) == Resp("unhandled", NoneVal, 0, "", 500)

\* the except clauses of base_route, then the application's errorhandler
base_route_except(message_id, e) ==
    IF e.type = "TypeError"
    THEN rpc_error(message_id, BINDING_FAILURE_CODE, e.message)
    ELSE IF e.type = "RpcError"
    THEN rpc_error(message_id, e.code, e.message)
    ELSE IF e.type = "StarkException"
    THEN handle(e)
    ELSE unhandled(e)

\* what awaiting a handler can end in: its return value or an exception
HandlerOutcomes ==
    {NoExc}
    \cup {Exc("RpcError", c, "handler error", 0) : c \in HandlerErrorCodes}
    \cup {Exc("TypeError", 0, "unsupported operand type(s)", 0)}
    \cup {Exc("StarkException", 0, "engine fault", s) : s \in FaultStatusCodes}
    \cup {Exc("ValueError", 0, "invalid literal", 0)}

\* what one request's handling did: the handlers entered, the call made
\* (positional and keyword argument counts), where an exception was raised and
\* which, and base_route's local message_id
Trace(inv, called, pos, named, at, e, i) ==
    [invoked |-> inv, called |-> called, pos |-> pos, named |-> named,
     raisedAt |-> at, exc |-> e, message_id |-> i]

NoTrace == Trace(<<>>, FALSE, 0, 0, "none", NoExc, NoneVal)

-----------------------------------------------------------------------------
(* Requests the clients send.                                              *)

chainId == <<"c","h","a","i","n","I","d">>

doesNotExist == <<"d","o","e","s","N","o","t","E","x","i","s","t">>

\* ids of the requests: an explicit null and two numbers
Ids == {NoneVal, Val("num", 1), Val("num", 2)}

\* every shape of "params": left out, null, array, object, string, number, bool
ParamVals ==
    {Val("absent", 0), NoneVal}
    \cup {Val(k, n) : k \in {"list", "dict"}, n \in 0..MaxArgs}
    \cup {Val(k, n) : k \in {"str", "num", "bool"}, n \in 0..1}

\* method strings: the namespace prefix before every registered name, before
\* an unknown name, and a few strings without it
DispatchMethods ==
    {PREFIX \o n : n \in DOMAIN methods}
    \cup {PREFIX \o doesNotExist, doesNotExist, chainId, <<>>}

\* the request bodies of the dispatch specification: every envelope shape
DispatchRequests ==
    {Body(s, Method("absent", <<>>), Val("absent", 0), Val("absent", 0)) :
        s \in {"array", "string", "number", "null"}}
    \cup {Body("object", Method(k, <<>>), p, i) :
            k \in {"absent", "num"}, p \in {Val("absent", 0), Val("list", 0)},
            i \in {Val("absent", 0), Val("num", 1)}}
    \cup {Body("object", Method("str", m), p, i) :
            m \in DispatchMethods, p \in ParamVals, i \in Ids \cup {Val("absent", 0)}}

\* the request bodies of the server specification, where threads interleave
ServerRequests ==
    {Body("object", Method("str", PREFIX \o m), p, i) :
        m \in {chainId, doesNotExist}, p \in {Val("list", 0), Val("str", 1)}, i \in Ids}

-----------------------------------------------------------------------------
(* server.py: main().                                                      *)

\* parse_args, state.load / set_starknet_wrapper, set_dump_options; a
\* StarknetDevnetException ends the process (sys.exit)
MainConfigure ==
    /\ pcMain = "start"
    /\ \/ pcMain' = "configured"
       \/ pcMain' = "exited"
    /\ UNCHANGED <<initCalls, initDone, gotFirstRequest, hookLock, registry,
                   pc, req, resp, trace, resolve, origin>>

\* a variant with a slip: main() goes on to serve without initializing
MainInitializeSkipped ==
    /\ pcMain = "configured"
    /\ pcMain' = "initialized"
    /\ UNCHANGED <<initCalls, initDone, gotFirstRequest, hookLock, registry,
                   pc, req, resp, trace, resolve, origin>>

\* asyncio.run(state.starknet_wrapper.initialize()): runs to completion
MainInitialize ==
    /\ pcMain = "configured"
    /\ initCalls' = initCalls + 1
    /\ initDone' = initDone + 1
    /\ pcMain' = "initialized"
    /\ UNCHANGED <<gotFirstRequest, hookLock, registry,
                   pc, req, resp, trace, resolve, origin>>

\* logging set up, then serve(...): the worker threads accept requests
MainServe ==
    /\ pcMain = "initialized"
    /\ pcMain' = "serving"
    /\ UNCHANGED <<initCalls, initDone, gotFirstRequest, hookLock, registry,
                   pc, req, resp, trace, resolve, origin>>

\* KeyboardInterrupt: serve() returns, no further request is accepted
MainStop ==
    /\ pcMain = "serving"
    /\ pcMain' = "stopped"
    /\ UNCHANGED <<initCalls, initDone, gotFirstRequest, hookLock, registry,
                   pc, req, resp, trace, resolve, origin>>

-----------------------------------------------------------------------------
(* A request on a worker thread.                                           *)

\* a request arrives; Flask skips the before_first_request functions when
\* they have already run
Receive(t, requests) ==
    /\ pcMain = "serving"
    /\ pc[t] = "idle"
    /\ \E b \in requests : req' = [req EXCEPT ![t] = b]
    /\ pc' = [pc EXCEPT ![t] = IF gotFirstRequest THEN "dispatch" ELSE "first"]
    /\ resp' = [resp EXCEPT ![t] = NoResp]
    /\ trace' = [trace EXCEPT ![t] = NoTrace]
    /\ UNCHANGED <<pcMain, initCalls, initDone, gotFirstRequest, hookLock,
                   registry, resolve, origin>>

\* @app.before_first_request: under Flask's lock, the thread that finds the
\* functions not yet run calls initialize_starknet
BeforeFirstRequest(t) ==
    /\ pc[t] = "first"
    /\ hookLock = 0
    /\ \/ /\ gotFirstRequest
          /\ pc' = [pc EXCEPT ![t] = "dispatch"]
          /\ UNCHANGED <<hookLock, initCalls>>
       \/ /\ ~gotFirstRequest
          /\ hookLock' = t
          /\ initCalls' = initCalls + 1
          /\ pc' = [pc EXCEPT ![t] = "hook"]
    /\ UNCHANGED <<pcMain, initDone, gotFirstRequest, registry,
                   req, resp, trace, resolve, origin>>

\* initialize_starknet: await state.starknet_wrapper.initialize() returns
InitializeStarknetDone(t) ==
    /\ pc[t] = "hook"
    /\ hookLock = t
    /\ initDone' = initDone + 1
    /\ gotFirstRequest' = TRUE
    /\ hookLock' = 0
    /\ pc' = [pc EXCEPT ![t] = "dispatch"]
    /\ UNCHANGED <<pcMain, initCalls, registry, req, resp, trace, resolve, origin>>

\* base_route up to its await: parse_body, then the call of the handler with
\* *params or **params; whether the arguments fit the handler's signature is
\* the handler's (bound), a TypeError of the call is caught as code 22
base_route(t) ==
    /\ pc[t] = "dispatch"
    /\ LET got == parse_body(req[t], registry)
           positional == got.params.kind = "list"
           pos == IF positional THEN got.params.n ELSE 0
           named == IF positional THEN 0 ELSE got.params.n
           misfit == Exc("TypeError", 0, "arguments do not fit the signature", 0)
       IN  \/ /\ got.exc.type # "none"
              /\ resp' = [resp EXCEPT ![t] = base_route_except(NoneVal, got.exc)]
              /\ trace' = [trace EXCEPT ![t] =
                              Trace(<<>>, FALSE, 0, 0, "parse_body", got.exc, NoneVal)]
              /\ pc' = [pc EXCEPT ![t] = "done"]
           \/ /\ got.exc.type = "none"
              /\ resp' = [resp EXCEPT ![t] =
                            base_route_except(got.message_id, misfit)]
              /\ trace' = [trace EXCEPT ![t] =
                              Trace(<<>>, TRUE, pos, named, "binding", misfit, got.message_id)]
              /\ pc' = [pc EXCEPT ![t] = "done"]
           \/ /\ got.exc.type = "none"
              /\ resp' = resp
              /\ trace' = [trace EXCEPT ![t] =
                              Trace(<<got.method>>, TRUE, pos, named, "none", NoExc,
                                    got.message_id)]
              /\ pc' = [pc EXCEPT ![t] = "awaiting"]
    /\ UNCHANGED <<pcMain, initCalls, initDone, gotFirstRequest, hookLock,
                   registry, req, resolve, origin>>

\* the awaited handler returns or raises
HandlerCompletes(t) ==
    /\ pc[t] = "awaiting"
    /\ \E out \in HandlerOutcomes :
          \/ /\ out.type = "none"
             /\ resp' = [resp EXCEPT ![t] = rpc_response(trace[t].message_id)]
             /\ trace' = trace
          \/ /\ out.type # "none"
             /\ resp' = [resp EXCEPT ![t] = base_route_except(trace[t].message_id, out)]
             /\ trace' = [trace EXCEPT ![t].raisedAt = "handler", ![t].exc = out]
    /\ pc' = [pc EXCEPT ![t] = "done"]
    /\ UNCHANGED <<pcMain, initCalls, initDone, gotFirstRequest, hookLock,
                   registry, req, resolve, origin>>

\* the response is sent, the thread takes the next request
Finish(t) ==
    /\ pc[t] = "done"
    /\ pc' = [pc EXCEPT ![t] = "idle"]
    /\ req' = [req EXCEPT ![t] = NoBody]
    /\ resp' = [resp EXCEPT ![t] = NoResp]
    /\ trace' = [trace EXCEPT ![t] = NoTrace]
    /\ UNCHANGED <<pcMain, initCalls, initDone, gotFirstRequest, hookLock,
                   registry, resolve, origin>>

NoResolve == [phase |-> "off", s |-> <<>>, name |-> <<>>, found |-> FALSE, handler |-> ""]

NoOrigin ==
    [phase |-> "off", hash |-> [some |-> FALSE, s |-> <<>>],
     number |-> [some |-> FALSE, n |-> 0], raised |-> FALSE, message |-> <<>>,
     self |-> [class |-> "NullOrigin"]]

ServerInit ==
    /\ pcMain = "start"
    /\ initCalls = 0
    /\ initDone = 0
    /\ gotFirstRequest = FALSE
    /\ hookLock = 0
    /\ registry = methods
    /\ pc = [t \in Threads |-> "idle"]
    /\ req = [t \in Threads |-> NoBody]
    /\ resp = [t \in Threads |-> NoResp]
    /\ trace = [t \in Threads |-> NoTrace]

Init ==
    /\ ServerInit
    /\ resolve = NoResolve
    /\ origin = NoOrigin

\* the server: main(), then requests handled on every worker thread
Next ==
    \/ MainConfigure
    \/ MainInitialize
    \/ MainServe
    \/ MainStop
    \/ \E t \in Threads : Receive(t, ServerRequests)
    \/ \E t \in Threads : BeforeFirstRequest(t)
    \/ \E t \in Threads : InitializeStarknetDone(t)
    \/ \E t \in Threads : base_route(t)
    \/ \E t \in Threads : HandlerCompletes(t)
    \/ \E t \in Threads : Finish(t)

Spec == Init /\ [][Next]_vars

\* the dispatcher on one thread, over every shape of request
NextDispatch ==
    \/ MainConfigure
    \/ MainInitialize
    \/ MainServe
    \/ MainStop
    \/ Receive(1, DispatchRequests)
    \/ BeforeFirstRequest(1)
    \/ InitializeStarknetDone(1)
    \/ base_route(1)
    \/ HandlerCompletes(1)
    \/ Finish(1)

SpecDispatch == Init /\ [][NextDispatch]_vars

-----------------------------------------------------------------------------
(* Method-name resolution of parse_body, on method strings of every make.  *)

getClass == <<"g","e","t","C","l","a","s","s">>

At == <<"A","t">>

\* the pieces method strings are assembled from: the prefix, its two halves,
\* registered names, parts of a registered name, and a letter
ResolvePieces ==
    {PREFIX, <<"s","t","a","r","k">>, <<"n","e","t","_">>,
     chainId, getClass, At, <<"c","a","l","l">>, <<"x">>}

RECURSIVE Assembled(_)
Assembled(k) ==
    IF k = 0 THEN {<<>>}
    ELSE LET shorter == Assembled(k - 1)
         IN  shorter \cup {s \o p : s \in shorter, p \in ResolvePieces}

ResolveInputs == Assembled(MaxParts)

\* parse_body on a request whose method is resolve.s, its name looked up
ResolveMethod ==
    /\ resolve.phase = "input"
    /\ LET got == parse_body(Body("object", Method("str", resolve.s),
                                  Val("absent", 0), Val("num", 1)), registry)
       IN  resolve' = [phase |-> "resolved", s |-> resolve.s, name |-> got.name,
                       found |-> got.exc.type = "none", handler |-> got.method]
    /\ UNCHANGED <<serverVars, origin>>

InitResolve ==
    /\ ServerInit
    /\ origin = NoOrigin
    /\ \E s \in ResolveInputs : resolve = [NoResolve EXCEPT !.phase = "input", !.s = s]

SpecResolve == InitResolve /\ [][ResolveMethod]_vars

-----------------------------------------------------------------------------
(* origin.py: NullOrigin.get_state_update.                                 *)

Digits == <<"0","1","2","3","4","5","6","7","8","9">>

\* str(n) of a non-negative int, as an f-string formats it
RECURSIVE str_int(_)
str_int(n) ==
    IF n < 10 THEN <<Digits[n + 1]>>
    ELSE str_int(n \div 10) \o <<Digits[(n % 10) + 1]>>

Arg(some, v) == [some |-> some, v |-> v]

\* a variant with a slip: the block number is tested for truth, like the hash
get_state_update_number_truthy(self, block_hash, block_number) ==
    IF block_hash.some /\ block_hash.v # <<>>
    THEN [raised |-> TRUE, self |-> self,
          message |-> <<"No state updates saved for the provided block hash ">>
                      \o block_hash.v]
    ELSE IF block_number.some /\ block_number.v # 0
    THEN [raised |-> TRUE, self |-> self,
          message |-> <<"No state updates saved for the provided block number ">>
                      \o str_int(block_number.v)]
    ELSE [raised |-> FALSE, self |-> self, message |-> <<>>]

\* `if block_hash:` raises for a hash that is neither None nor empty;
\* `if block_number is not None:` raises for every number; else None is returned
get_state_update(self, block_hash, block_number) ==
    IF block_hash.some /\ block_hash.v # <<>>
    THEN [raised |-> TRUE, self |-> self,
          message |-> <<"No state updates saved for the provided block hash ">>
                      \o block_hash.v]
    ELSE IF block_number.some
    THEN [raised |-> TRUE, self |-> self,
          message |-> <<"No state updates saved for the provided block number ">>
                      \o str_int(block_number.v)]
    ELSE [raised |-> FALSE, self |-> self, message |-> <<>>]

RECURSIVE HashStrings(_)
HashStrings(k) ==
    IF k = 0 THEN {<<>>}
    ELSE LET shorter == HashStrings(k - 1)
         IN  shorter \cup {s \o <<c>> : s \in shorter, c \in {"0", "x", "a"}}

\* block_hash: None or a string; block_number: None or an int
HashArgs == {Arg(FALSE, <<>>)} \cup {Arg(TRUE, s) : s \in HashStrings(MaxHashLen)}

NumberArgs == {Arg(FALSE, 0)} \cup {Arg(TRUE, n) : n \in 0..MaxBlockNumber}

\* a caller asks the NullOrigin for a state update
CallGetStateUpdate ==
    /\ origin.phase \in {"ready", "returned"}
    /\ \E h \in HashArgs : \E n \in NumberArgs :
          LET out == get_state_update(origin.self, h, n)
          IN  origin' = [phase |-> "returned", hash |-> [some |-> h.some, s |-> h.v],
                         number |-> [some |-> n.some, n |-> n.v],
                         raised |-> out.raised, message |-> out.message,
                         self |-> out.self]
    /\ UNCHANGED <<serverVars, resolve>>

InitOrigin ==
    /\ ServerInit
    /\ resolve = NoResolve
    /\ origin = [NoOrigin EXCEPT !.phase = "ready"]

SpecOrigin == InitOrigin /\ [][CallGetStateUpdate]_vars

-----------------------------------------------------------------------------
(* Claims about the dispatcher and the server.                             *)

\* an envelope parse_body's three lookups accept
WellFormed(b) == b.shape = "object" /\ b.method.kind = "str" /\ b.id.kind # "absent"

\* the method names section 6 of the specification enumerates
SpecMethodNames ==
    { <<"g","e","t","B","l","o","c","k","W","i","t","h","T","x","H","a","s","h","e","s">>,
      <<"g","e","t","B","l","o","c","k","W","i","t","h","T","x","s">>,
      <<"g","e","t","S","t","a","t","e","U","p","d","a","t","e">>,
      <<"g","e","t","S","t","o","r","a","g","e","A","t">>,
      <<"g","e","t","T","r","a","n","s","a","c","t","i","o","n","B","y","H","a","s","h">>,
      <<"g","e","t","T","r","a","n","s","a","c","t","i","o","n","B","y","B","l","o","c","k","I","d","A","n","d","I","n","d","e","x">>,
      <<"g","e","t","T","r","a","n","s","a","c","t","i","o","n","R","e","c","e","i","p","t">>,
      <<"g","e","t","C","l","a","s","s">>,
      <<"g","e","t","C","l","a","s","s","H","a","s","h","A","t">>,
      <<"g","e","t","C","l","a","s","s","A","t">>,
      <<"g","e","t","B","l","o","c","k","T","r","a","n","s","a","c","t","i","o","n","C","o","u","n","t">>,
      <<"c","a","l","l">>,
      <<"e","s","t","i","m","a","t","e","F","e","e">>,
      <<"b","l","o","c","k","N","u","m","b","e","r">>,
      <<"b","l","o","c","k","H","a","s","h","A","n","d","N","u","m","b","e","r">>,
      <<"c","h","a","i","n","I","d">>,
      <<"p","e","n","d","i","n","g","T","r","a","n","s","a","c","t","i","o","n","s">>,
      <<"s","y","n","c","i","n","g">>,
      <<"g","e","t","E","v","e","n","t","s">>,
      <<"g","e","t","N","o","n","c","e">>,
      <<"a","d","d","I","n","v","o","k","e","T","r","a","n","s","a","c","t","i","o","n">>,
      <<"a","d","d","D","e","c","l","a","r","e","T","r","a","n","s","a","c","t","i","o","n">>,
      <<"a","d","d","D","e","p","l","o","y","T","r","a","n","s","a","c","t","i","o","n">> }

\* C1: every JSON-RPC response to a request that carries an id carries exactly
\* that id, whatever the outcome and however the requests interleave.
C1_ResponseEchoesRequestId ==
    \A t \in Threads :
        (/\ pc[t] = "done"
         /\ req[t].shape = "object"
         /\ req[t].id.kind # "absent"
         /\ resp[t].kind \in {"result", "error"})
        => resp[t].id = req[t].id

C3_MalformedEnvelopeIsInvalidRequest ==
    \A t \in Threads :
        (/\ pc[t] = "done"
         /\ \/ req[t].shape # "object"
            \/ req[t].method.kind = "absent"
            \/ req[t].id.kind = "absent")
        => /\ resp[t].kind = "error"
           /\ resp[t].code = INVALID_REQUEST

\* C4: for a registered method the shape of params decides the call: an array
\* positionally, an object by name, absent or null as an empty object, and
\* every string, number or bool is InvalidParams without a call.
C4_ParamsShapeDecidesCall ==
    \A t \in Threads :
        (/\ pc[t] \in {"awaiting", "done"}
         /\ WellFormed(req[t])
         /\ replace(req[t].method.s, PREFIX) \in SpecMethodNames)
        => LET p == req[t].params
           IN  /\ p.kind = "list" =>
                    trace[t].called /\ trace[t].pos = p.n /\ trace[t].named = 0
               /\ p.kind = "dict" =>
                    trace[t].called /\ trace[t].pos = 0 /\ trace[t].named = p.n
               /\ p.kind \in {"absent", "null"} =>
                    trace[t].called /\ trace[t].pos = 0 /\ trace[t].named = 0
               /\ p.kind \in {"str", "num", "bool"} =>
                    /\ pc[t] = "done"
                    /\ resp[t].kind = "error"
                    /\ resp[t].code = INVALID_PARAMS
                    /\ ~trace[t].called
                    /\ trace[t].invoked = <<>>

\* C5: a response carries code 22 exactly when binding the params to the
\* handler failed: never for a malformed envelope, a params-shape error or a
\* fault raised in the handler's body.
C5_Code22IffBindingFailure ==
    \A t \in Threads :
        pc[t] = "done"
        => ((resp[t].kind = "error" /\ resp[t].code = BINDING_FAILURE_CODE)
            <=> trace[t].raisedAt = "binding")

\* C6: a handler's RpcError is passed through with its code and message; any
\* other exception of the handler leaves the JSON-RPC envelope and is rendered
\* as the bare {message, status_code} object at the fault's status code.
C6_HandlerFailuresInTwoTiers ==
    \A t \in Threads :
        (pc[t] = "done" /\ trace[t].raisedAt = "handler")
        => IF trace[t].exc.type = "RpcError"
           THEN /\ resp[t].kind = "error"
                /\ resp[t].code = trace[t].exc.code
                /\ resp[t].message = trace[t].exc.message
           ELSE /\ resp[t].kind = "fault"
                /\ resp[t].message = trace[t].exc.message
                /\ resp[t].status = trace[t].exc.status

\* a well-formed request for the namespace prefix + a name of the
\* specification enters that name's handler once, and no other
RegisteredNamesDispatch ==
    \A t \in Threads : \A n \in SpecMethodNames :
        (/\ pc[t] \in {"awaiting", "done"}
         /\ WellFormed(req[t])
         /\ req[t].method.s = PREFIX \o n
         /\ req[t].params.kind \in {"list", "dict", "absent", "null"}
         /\ trace[t].raisedAt # "binding")
        => /\ n \in DOMAIN registry
           /\ trace[t].invoked = <<registry[n]>>
           /\ \A o \in DOMAIN registry : registry[o] = registry[n] => o = n

\* C7 as stated: the registry holds the enumerated names, 22 in total, never
\* changes, and each name dispatches to its handler alone.
C7_RegistryHolds22Names ==
    /\ Cardinality(DOMAIN registry) = 22
    /\ DOMAIN registry = SpecMethodNames
    /\ registry = methods
    /\ RegisteredNamesDispatch

\* C7 amended: the registry holds the enumerated names, 23 in total, never
\* changes, and each name dispatches to its handler alone.
C7_RegistryHolds23Names ==
    /\ Cardinality(DOMAIN registry) = 23
    /\ DOMAIN registry = SpecMethodNames
    /\ registry = methods
    /\ RegisteredNamesDispatch

\* C7's case: the last registered name, sent with its prefix, entered its handler
C7_Witness ==
    \E t \in Threads :
        /\ pc[t] = "awaiting"
        /\ req[t].method.s = PREFIX \o <<"a","d","d","D","e","p","l","o","y","T","r","a","n","s","a","c","t","i","o","n">>
        /\ req[t].params = Val("dict", 1)
        /\ trace[t].invoked = <<"add_deploy_transaction">>

\* C8 as stated: initialization has completed before any handler is entered
\* and is triggered at most once.
C8_InitializedAtMostOnce ==
    /\ \A t \in Threads : trace[t].invoked # <<>> => initDone >= 1
    /\ initCalls <= 1

\* C8 amended: main() has initialized before it serves, so before any request
\* is taken and any handler entered; the before_first_request hook initializes
\* once more, on the first request only: two calls in all, never a third.
C8_InitializedBeforeServingAtMostTwice ==
    /\ pcMain \in {"serving", "stopped"} => initDone >= 1
    /\ \A t \in Threads : pc[t] # "idle" => initDone >= 1
    /\ \A t \in Threads :
          trace[t].invoked # <<>> => initCalls = 2 /\ initDone = 2
    /\ initCalls <= 2
    /\ initDone <= initCalls

\* C8's case: two first requests at once, one of them running the hook
C8_Witness ==
    \E t \in Threads : \E u \in Threads :
        /\ t # u
        /\ pc[t] = "hook"
        /\ pc[u] = "first"
        /\ initCalls = 2

-----------------------------------------------------------------------------
(* Claims about NullOrigin and about method-name resolution.               *)

\* C9 as stated: a supplied block hash (any string) or block number (0 too)
\* makes get_state_update fail with a message naming a requested identifier;
\* only with neither does it return without raising; NullOrigin is unchanged.
C9_AnySuppliedIdentifierRaises ==
    origin.phase = "returned" =>
        /\ (origin.hash.some \/ origin.number.some) =>
              /\ origin.raised
              /\ \/ origin.hash.some /\ Tail(origin.message) = origin.hash.s
                 \/ origin.number.some /\ Tail(origin.message) = str_int(origin.number.n)
        /\ (~origin.hash.some /\ ~origin.number.some) => ~origin.raised
        /\ origin.self = NoOrigin.self

\* C9 amended: a non-empty block hash makes get_state_update fail naming the
\* hash; otherwise a block number (0 too) makes it fail naming the number;
\* with neither, or with only the empty string as hash, it returns without
\* raising; NullOrigin is unchanged.
C9_NonEmptyHashOrNumberRaises ==
    origin.phase = "returned" =>
        LET hashGiven == origin.hash.some /\ origin.hash.s # <<>>
        IN  /\ hashGiven =>
                /\ origin.raised
                /\ Head(origin.message) =
                      "No state updates saved for the provided block hash "
                /\ Tail(origin.message) = origin.hash.s
            /\ (~hashGiven /\ origin.number.some) =>
                /\ origin.raised
                /\ Head(origin.message) =
                      "No state updates saved for the provided block number "
                /\ Tail(origin.message) = str_int(origin.number.n)
            /\ (~hashGiven /\ ~origin.number.some) =>
                /\ ~origin.raised
                /\ origin.message = <<>>
            /\ origin.self = NoOrigin.self

\* C9's case: the empty hash with block number 0 failed naming the number
C9_Witness ==
    /\ origin.phase = "returned"
    /\ origin.hash.some /\ origin.hash.s = <<>>
    /\ origin.number.some /\ origin.number.n = 0
    /\ origin.raised
    /\ Tail(origin.message) = <<"0">>

\* the places of s where "starknet_" occurs; the word has no border, so no
\* two occurrences overlap
Occurrences(s) ==
    {i \in 1..Len(s) : i + Len(PREFIX) - 1 <= Len(s)
                       /\ SubSeq(s, i, i + Len(PREFIX) - 1) = PREFIX}

\* s with every occurrence of "starknet_" deleted: the letters of s that lie
\* in no occurrence, in their order
DeleteAll(s) ==
    LET kept == {j \in 1..Len(s) :
                    \A i \in Occurrences(s) : j < i \/ j > i + Len(PREFIX) - 1}
        at(k) == CHOOSE j \in kept : Cardinality({i \in kept : i <= j}) = k
    IN  [k \in 1..Cardinality(kept) |-> s[at(k)]]

\* C10: parse_body resolves a method string to the registered name that
\* deleting every occurrence of "starknet_" from it gives, and to none
\* otherwise; so a bare name, a repeated prefix and a prefix in the middle of
\* a name all reach the handler of prefix + name.
C10_EveryOccurrenceIsRemoved ==
    resolve.phase = "resolved" =>
        /\ resolve.found <=> DeleteAll(resolve.s) \in SpecMethodNames
        /\ resolve.found => resolve.handler = methods[DeleteAll(resolve.s)]
        /\ resolve.s \in {chainId, PREFIX \o chainId, PREFIX \o PREFIX \o chainId}
              => resolve.found /\ resolve.handler = "chain_id"
        /\ resolve.s = getClass \o PREFIX \o At
              => resolve.found /\ resolve.handler = "get_class_at"

\* C10's case: the prefix in the middle of getClassAt reached get_class_at
C10_Witness ==
    /\ resolve.phase = "resolved"
    /\ resolve.s = getClass \o PREFIX \o At
    /\ resolve.found
    /\ resolve.handler = "get_class_at"

====
